---- MODULE Spec2Model ----
(***************************************************************************)
(* Model of app.py: the coupon endpoint (generate_coupon) with its         *)
(* process-wide folio counter, and the PDF rename endpoint (rename_pdf)    *)
(* with the rename engine (renombrar_pdfs_en_directorio).                  *)
(*                                                                         *)
(* Python strings are sequences of one-character strings, so that          *)
(* sanitising, splitting, trimming, suffixing and formatting are computed  *)
(* the way the code computes them.                                         *)
(***************************************************************************)
EXTENDS Integers, Sequences, FiniteSets, Bags, TLC

VARIABLES
    current_folio,          \* app.py:32, the global folio counter
    log,                    \* generate_coupon requests handled one after another
    thr,                    \* concurrent generate_coupon requests: position and locals
    pc,                     \* rename_pdf / rename engine position
    request,                \* the rename_pdf request being handled
    temp_dir,               \* whether the mkdtemp() directory exists on disk
    tree0,                  \* the tree as extracted from the archive
    files,                  \* the extraction tree as it stands
    walk,                   \* os.walk: directories still to be listed
    dirpath,                \* os.walk: the directory being processed
    pending,                \* os.walk: names of the listing not yet iterated
    pdf_procesados,         \* app.py:51
    renombrados_info,       \* app.py:52
    advertencias_errores,   \* app.py:53
    visits,                 \* history: documents handled by the loop body, in order
    moves,                  \* history: the os.rename calls made, in order
    run,                    \* which run of the engine on this tree (1 or 2)
    zip_out,                \* entries written to renombrados.zip
    response                \* the HTTP status returned by rename_pdf (0: none yet)

vars == <<current_folio, log, thr, pc, request, temp_dir, tree0, files, walk,
          dirpath, pending, pdf_procesados, renombrados_info,
          advertencias_errores, visits, moves, run, zip_out, response>>

couponVars == <<current_folio, log, thr>>
renameVars == <<pc, request, temp_dir, tree0, files, walk, dirpath, pending,
                pdf_procesados, renombrados_info, advertencias_errores,
                visits, moves, run, zip_out, response>>

----------------------------------------------------------------------------
(* Bounds of the model.                                                    *)

MaxRequests == 3
MaxThreads == 2
MaxDocs == 3

----------------------------------------------------------------------------
(* Python string operations used by the code.                              *)

Digits == <<"0", "1", "2", "3", "4", "5", "6", "7", "8", "9">>

RECURSIVE str(_)
str(n) == IF n < 10 THEN <<Digits[n + 1]>>
          ELSE str(n \div 10) \o <<Digits[(n % 10) + 1]>>

RECURSIVE zeros(_)
zeros(k) == IF k <= 0 THEN <<>> ELSE <<"0">> \o zeros(k - 1)

zfill(s, width) == zeros(width - Len(s)) \o s

Whitespace == {" ", "\t", "\n", "\r"}

RECURSIVE lstrip(_)
lstrip(s) == IF s # <<>> /\ Head(s) \in Whitespace THEN lstrip(Tail(s)) ELSE s

RECURSIVE rstrip(_)
rstrip(s) == IF s # <<>> /\ s[Len(s)] \in Whitespace
             THEN rstrip(SubSeq(s, 1, Len(s) - 1)) ELSE s

strip(s) == rstrip(lstrip(s))

\* text.split('\n'): always at least one line
RECURSIVE split(_)
split(text) ==
    IF \A i \in 1..Len(text) : text[i] # "\n" THEN <<text>>
    ELSE LET i == CHOOSE k \in 1..Len(text) :
                      text[k] = "\n" /\ \A j \in 1..(k - 1) : text[j] # "\n"
         IN <<SubSeq(text, 1, i - 1)>> \o split(SubSeq(text, i + 1, Len(text)))

\* sub in s
contains(s, sub) ==
    \E i \in 1..(Len(s) - Len(sub) + 1) : SubSeq(s, i, i + Len(sub) - 1) = sub

endswith(s, suffix) ==
    /\ Len(s) >= Len(suffix)
    /\ SubSeq(s, Len(s) - Len(suffix) + 1, Len(s)) = suffix

\* str.lower on the letters that occur in the model's names
LowerChar(c) == CASE c = "P" -> "p" [] c = "D" -> "d" [] c = "F" -> "f"
                  [] c = "J" -> "j" [] c = "K" -> "k" [] OTHER -> c

lower(s) == [i \in 1..Len(s) |-> LowerChar(s[i])]

\* os.path.splitext on a name without separators: the extension starts at the
\* last dot, unless only dots precede it
splitext(name) ==
    LET dots == {i \in 1..Len(name) : name[i] = "."}
    IN IF dots = {} THEN <<name, <<>>>>
       ELSE LET dotIndex == CHOOSE i \in dots : \A j \in dots : j <= i
            IN IF \E k \in 1..(dotIndex - 1) : name[k] # "."
               THEN <<SubSeq(name, 1, dotIndex - 1), SubSeq(name, dotIndex, Len(name))>>
               ELSE <<name, <<>>>>

----------------------------------------------------------------------------
(* generate_coupon, app.py:127-188.                                        *)

InitialFolio == 36

NoName == [given |-> FALSE, s |-> <<>>]
Name(s) == [given |-> TRUE, s |-> s]

\* data.get('alumniName'): absent, empty, whitespace-only, or a name
AlumniNames == {NoName, Name(<<>>), Name(<<" ">>), Name(<<"A", "n", "a">>)}

\* a request: whether request.get_json() is an object, the alumniName it
\* carries, and whether the base image can be opened
CouponRequests ==
    [object : BOOLEAN, alumniName : AlumniNames, image : {"ok", "missing"}]

\* `not alumni_name`
Falsy(alumni_name) == ~alumni_name.given \/ alumni_name.s = <<>>

\* current_folio += 1
Increment(folio) == folio + 1

\* Mutant of Handle: the counter is advanced before alumniName is checked, so
\* a rejected request consumes a folio.
HandleIncrementFirst(req, folio) ==
    IF ~req.object THEN <<500, <<>>, folio>>
    ELSE LET f == Increment(folio)
             folio_number == zfill(str(f), 4)
         IN IF Falsy(req.alumniName) THEN <<400, <<>>, f>>
            ELSE IF req.image = "missing" THEN <<500, <<>>, f>>
            ELSE <<200, folio_number, f>>

\* The whole handler for one request, run with no other request in between.
\* The result is <<status, folio string, counter after>>.
Handle(req, folio) ==
    IF ~req.object THEN <<500, <<>>, folio>>               \* data.get raises
    ELSE IF Falsy(req.alumniName) THEN <<400, <<>>, folio>>
    ELSE LET f == Increment(folio)
             folio_number == zfill(str(f), 4)
         IN IF req.image = "missing" THEN <<500, <<>>, f>>
            ELSE <<200, folio_number, f>>

generate_coupon(req) ==
    /\ Len(log) < MaxRequests
    /\ LET r == Handle(req, current_folio)
       IN /\ current_folio' = r[3]
          /\ log' = Append(log, [req |-> req, status |-> r[1], folio |-> r[2],
                                 before |-> current_folio, after |-> r[3]])
    /\ UNCHANGED <<thr, renameVars>>

----------------------------------------------------------------------------
(* generate_coupon under concurrent requests: the handler's accesses to    *)
(* the global, one step each (app.py:139 reads, adds one and writes back;  *)
(* app.py:140 reads again to format).                                      *)

Threads == 1..MaxThreads

ThreadStart == [pc |-> "start", tmp |-> 0, folio |-> <<>>, status |-> 0]

\* app.py:130-135
t_validate(t) ==
    /\ thr[t].pc = "start"
    /\ \E alumni_name \in AlumniNames :
          thr' = [thr EXCEPT ![t] =
                    IF Falsy(alumni_name)
                    THEN [@ EXCEPT !.pc = "done", !.status = 400]
                    ELSE [@ EXCEPT !.pc = "load"]]
    /\ UNCHANGED <<current_folio, log, renameVars>>

\* app.py:139, the read of current_folio
t_load(t) ==
    /\ thr[t].pc = "load"
    /\ thr' = [thr EXCEPT ![t] = [@ EXCEPT !.pc = "store", !.tmp = current_folio]]
    /\ UNCHANGED <<current_folio, log, renameVars>>

\* app.py:139, the write of the value read plus one
t_store(t) ==
    /\ thr[t].pc = "store"
    /\ current_folio' = Increment(thr[t].tmp)
    /\ thr' = [thr EXCEPT ![t] = [@ EXCEPT !.pc = "format"]]
    /\ UNCHANGED <<log, renameVars>>

\* app.py:140, the second read, formatted
t_format(t) ==
    /\ thr[t].pc = "format"
    /\ thr' = [thr EXCEPT ![t] = [@ EXCEPT !.pc = "render",
                                           !.folio = zfill(str(current_folio), 4)]]
    /\ UNCHANGED <<current_folio, log, renameVars>>

\* app.py:143-188
t_render(t) ==
    /\ thr[t].pc = "render"
    /\ \E image \in {"ok", "missing"} :
          thr' = [thr EXCEPT ![t] =
                    [@ EXCEPT !.pc = "done",
                              !.status = IF image = "ok" THEN 200 ELSE 500]]
    /\ UNCHANGED <<current_folio, log, renameVars>>

----------------------------------------------------------------------------
(* The extraction tree.  A file is [dir, name, orig, doc]: the directory it *)
(* is in, its current name, the name it was extracted under, and the kind   *)
(* of document it is.                                                       *)

Root == <<>>
Sub == <<"s">>

NL == <<"\n">>

Anchor ==
    << "N", "o", "m", "b", "r", "e", "(", "s", ")", " ", "P",
       "r", "i", "m", "e", "r", " ", "a", "p", "e", "l", "l",
       "i", "d", "o", " ", "S", "e", "g", "u", "n", "d", "o",
       " ", "a", "p", "e", "l", "l", "i", "d", "o" >>

PdfExt == <<".", "p", "d", "f">>

\* first-page texts
TextJ == <<" ", "J", "?">> \o NL \o Anchor \o NL \o <<"K">> \o NL \o Anchor
TextK == Anchor \o NL \o <<"K", " ">> \o NL \o <<"x">> \o Anchor \o <<"y">>
TextAnchorFirst == Anchor \o NL \o <<"J">>
TextNoAnchor == <<"J">> \o NL \o <<"K">>
TextBlankBefore == <<" ">> \o NL \o Anchor
TextOnlyInvalid == <<"?">> \o NL \o Anchor

Doc(pages, text, fault) == [pages |-> pages, text |-> text, fault |-> fault]

\* The documents an archive may hold, by kind.  A file of the tree carries the
\* kind; Content gives what pdfplumber finds in a document of that kind:
\* pages or none, the text extract_text() returns (<<>> for None or ""), and
\* the call that raises, if one does.
Kinds == {"J", "J_rename_fails", "K", "open_fails", "extract_fails", "no_pages",
          "no_text", "anchor_first", "no_anchor", "blank_before", "only_invalid"}

Content(kind) ==
    CASE kind = "J"              -> Doc(TRUE, TextJ, "none")
      [] kind = "J_rename_fails" -> Doc(TRUE, TextJ, "rename")
      [] kind = "K"              -> Doc(TRUE, TextK, "none")
      [] kind = "open_fails"     -> Doc(TRUE, TextJ, "open")
      [] kind = "extract_fails"  -> Doc(TRUE, TextJ, "extract")
      [] kind = "no_pages"       -> Doc(FALSE, <<>>, "none")
      [] kind = "no_text"        -> Doc(TRUE, <<>>, "none")
      [] kind = "anchor_first"   -> Doc(TRUE, TextAnchorFirst, "none")
      [] kind = "no_anchor"      -> Doc(TRUE, TextNoAnchor, "none")
      [] kind = "blank_before"   -> Doc(TRUE, TextBlankBefore, "none")
      [] kind = "only_invalid"   -> Doc(TRUE, TextOnlyInvalid, "none")
      [] OTHER                   -> Doc(FALSE, <<>>, "none")

NotADocument == "other"

\* the paths an archive may hold
PathMenu ==
    { [dir |-> Root, name |-> <<"a">> \o PdfExt],
      [dir |-> Root, name |-> <<"J">> \o PdfExt],
      [dir |-> Root, name |-> <<"J", "_", "1">> \o PdfExt],
      [dir |-> Root, name |-> <<"n", ".", "t", "x", "t">>],
      [dir |-> Sub,  name |-> <<"b", ".", "P", "D", "F">>] }

\* nombre_archivo.lower().endswith('.pdf')
IsPdfName(nombre_archivo) == endswith(lower(nombre_archivo), PdfExt)

\* the sets of paths of an archive of at most MaxDocs files
PathSets == {S \in SUBSET PathMenu : Cardinality(S) <= MaxDocs}

\* a file that is not a PDF is never opened: what it holds does not matter
\* the ways to fill the paths S with documents of the given kinds
Fillings(S, kinds) ==
    {c \in [S -> kinds \cup {NotADocument}] :
        \A p \in S : c[p] \in (IF IsPdfName(p.name) THEN kinds ELSE {NotADocument})}

\* the tree an archive with paths S and documents c extracts to
TreeOf(S, c) ==
    {[dir |-> p.dir, name |-> p.name, orig |-> p.name, doc |-> c[p]] : p \in S}

\* os.path.join(dirpath, name), relative to the extraction root
relpath(dir, name) == IF dir = Root THEN name ELSE dir \o <<"/">> \o name

\* os.path.exists(os.path.join(dir, name))
exists(fs, dir, name) == \E f \in fs : f.dir = dir /\ f.name = name

FileAt(fs, dir, name) == CHOOSE f \in fs : f.dir = dir /\ f.name = name

\* os.rename(old, new) within dir: an existing file at new is replaced
os_rename(fs, dir, old, new) ==
    LET f == FileAt(fs, dir, old)
    IN ({g \in fs : ~(g.dir = dir /\ g.name \in {old, new})})
         \cup {[f EXCEPT !.name = new]}

\* os.walk lists a directory's file names when it reaches the directory
listdir(fs, dir) == {f.name : f \in {g \in fs : g.dir = dir}}

\* os.walk visits the root, then the subdirectory if extraction created it
WalkOrder(fs) == <<Root>> \o (IF \E f \in fs : f.dir = Sub THEN <<Sub>> ELSE <<>>)

----------------------------------------------------------------------------
(* renombrar_pdfs_en_directorio, app.py:44-124.                            *)

InvalidChars == {"\\", "/", "*", "?", ":", "\"", "<", ">", "|"}

Valid(c) == c \notin InvalidChars

\* app.py:40-42
limpiar_nombre_archivo(nombre) == SelectSeq(nombre, Valid)

None == [found |-> FALSE, s |-> <<>>]
Some(s) == [found |-> TRUE, s |-> s]

\* app.py:79-84: the line before the first anchor line that is not line 0
RECURSIVE FindFrom(_, _)
FindFrom(lineas, i) ==
    IF i > Len(lineas) THEN None
    ELSE IF contains(lineas[i], Anchor) /\ i > 1 THEN Some(strip(lineas[i - 1]))
    ELSE FindFrom(lineas, i + 1)

nombre_encontrado(texto_completo) == FindFrom(split(texto_completo), 1)

\* `if nombre_encontrado:`
Truthy(n) == n.found /\ n.s # <<>>

\* app.py:94-99: the first of base_1 ext, base_2 ext, ... that does not exist
RECURSIVE NextFree(_, _, _, _, _)
NextFree(fs, dir, nuevo, partes, counter) ==
    IF exists(fs, dir, nuevo)
    THEN NextFree(fs, dir, partes[1] \o <<"_">> \o str(counter) \o partes[2],
                  partes, counter + 1)
    ELSE nuevo

\* Mutant of ruta_nueva: the candidate is used without looking whether it exists.
ruta_nueva_sin_comprobar(fs, dir, nuevo_nombre_archivo) == nuevo_nombre_archivo

\* app.py:94-99
ruta_nueva(fs, dir, nuevo_nombre_archivo) ==
    NextFree(fs, dir, nuevo_nombre_archivo, splitext(nuevo_nombre_archivo), 1)

Msg(kind, path) == [kind |-> kind, path |-> path]

\* Mutant of except_handler: the exception is swallowed without a message.
except_pass(relative_path_original) == <<>>

\* app.py:113-116: what the except clause appends to advertencias_errores
except_handler(relative_path_original) ==
    <<Msg("excepcion", relative_path_original)>>

\* The loop body for one PDF name of the listing (app.py:58-116): the outcome
\* as [fs, info, issues, moved]: the tree afterwards, what is appended to
\* renombrados_info and to advertencias_errores, and the os.rename made
\* (with the sanitised name and the directory's names at that moment).
Procesar(fs, dir, nombre_archivo) ==
    LET rel == relpath(dir, nombre_archivo)
        Out(fs2, info, issues, moved) ==
            [fs |-> fs2, info |-> info, issues |-> issues, moved |-> moved]
        Raised == Out(fs, <<>>, except_handler(rel), <<>>)
    IN IF ~exists(fs, dir, nombre_archivo) THEN Raised
       ELSE
       LET doc == Content(FileAt(fs, dir, nombre_archivo).doc)
           found == nombre_encontrado(doc.text)
           nuevo == limpiar_nombre_archivo(found.s) \o PdfExt
           destino == ruta_nueva(fs, dir, nuevo)
       IN IF doc.fault = "open" THEN Raised
          ELSE IF ~doc.pages THEN Out(fs, <<>>, <<Msg("sin_paginas", rel)>>, <<>>)
          ELSE IF doc.fault = "extract" THEN Raised
          ELSE IF doc.text = <<>> THEN Out(fs, <<>>, <<Msg("sin_texto", rel)>>, <<>>)
          ELSE IF ~Truthy(found) THEN Out(fs, <<>>, <<Msg("sin_clave", rel)>>, <<>>)
          ELSE IF nuevo = nombre_archivo THEN Out(fs, <<rel>>, <<>>, <<>>)
          ELSE IF doc.fault = "rename" THEN Raised
          ELSE Out(os_rename(fs, dir, nombre_archivo, destino),
                   <<relpath(dir, destino)>>, <<>>,
                   <<[dir |-> dir, from |-> nombre_archivo, to |-> destino,
                      limpio |-> limpiar_nombre_archivo(found.s),
                      taken |-> listdir(fs, dir)]>>)

\* app.py:55: os.walk yields the next directory with its listing
walk_next ==
    /\ pc = "engine"
    /\ pending = {}
    /\ walk # <<>>
    /\ dirpath' = Head(walk)
    /\ pending' = listdir(files, Head(walk))
    /\ walk' = Tail(walk)
    /\ UNCHANGED <<pc, request, temp_dir, tree0, files, pdf_procesados,
                   renombrados_info, advertencias_errores, visits, moves, run,
                   zip_out, response, couponVars>>

\* app.py:56-57: a name of the listing that is not a PDF is skipped
skip_file ==
    /\ pc = "engine"
    /\ \E nombre_archivo \in pending :
          /\ ~IsPdfName(nombre_archivo)
          /\ pending' = pending \ {nombre_archivo}
    /\ UNCHANGED <<pc, request, temp_dir, tree0, files, walk, dirpath,
                   pdf_procesados, renombrados_info, advertencias_errores,
                   visits, moves, run, zip_out, response, couponVars>>

\* app.py:56-116: the loop body for a PDF name of the listing, in any order
procesar_pdf ==
    /\ pc = "engine"
    /\ \E nombre_archivo \in pending :
          /\ IsPdfName(nombre_archivo)
          /\ LET r == Procesar(files, dirpath, nombre_archivo)
             IN /\ files' = r.fs
                /\ renombrados_info' = renombrados_info \o r.info
                /\ advertencias_errores' = advertencias_errores \o r.issues
                /\ moves' = moves \o r.moved
          /\ pdf_procesados' = pdf_procesados + 1
          /\ visits' = Append(visits,
                IF exists(files, dirpath, nombre_archivo)
                THEN <<dirpath, FileAt(files, dirpath, nombre_archivo).orig>>
                ELSE <<dirpath, <<>>>>)
          /\ pending' = pending \ {nombre_archivo}
    /\ UNCHANGED <<pc, request, temp_dir, tree0, walk, dirpath, run, zip_out,
                   response, couponVars>>

\* app.py:118-124
engine_return ==
    /\ pc = "engine"
    /\ pending = {}
    /\ walk = <<>>
    /\ advertencias_errores' =
          IF pdf_procesados = 0
          THEN Append(advertencias_errores, Msg("sin_pdfs", <<>>))
          ELSE advertencias_errores
    /\ pc' = "returned"
    /\ UNCHANGED <<request, temp_dir, tree0, files, walk, dirpath, pending,
                   pdf_procesados, renombrados_info, visits, moves, run,
                   zip_out, response, couponVars>>

----------------------------------------------------------------------------
(* rename_pdf, app.py:191-259.                                             *)

ZipExt == <<".", "z", "i", "p">>

\* the upload: whether the form has the field zip_file, the file's name, and
\* what the uploaded bytes are
RenameRequests ==
    [field : BOOLEAN,
     filename : {<<"x">> \o ZipExt, <<"x", ".", "Z", "I", "P">>, <<"x">> \o PdfExt},
     zip : {"valid", "corrupt", "unreadable"}]

\* app.py:247-259: the finally block, which removes nothing
Finally(temp) == temp

\* app.py:193-206
rp_start ==
    /\ pc = "idle"
    /\ \E req \in RenameRequests :
          /\ request' = req
          /\ IF ~req.field \/ ~endswith(req.filename, ZipExt)
             THEN /\ response' = 400
                  /\ pc' = "done"
                  /\ temp_dir' = temp_dir
             ELSE /\ response' = response
                  /\ pc' = "extract"
                  /\ temp_dir' = TRUE
    /\ UNCHANGED <<tree0, files, walk, dirpath, pending, pdf_procesados,
                   renombrados_info, advertencias_errores, visits, moves, run,
                   zip_out, couponVars>>

\* app.py:209-217, 241-246: a corrupt upload raises BadZipFile (400), any other
\* failure is answered 500
rp_extract_fails ==
    /\ pc = "extract"
    /\ request.zip # "valid"
    /\ response' = IF request.zip = "corrupt" THEN 400 ELSE 500
    /\ pc' = "done"
    /\ temp_dir' = Finally(temp_dir)
    /\ UNCHANGED <<request, tree0, files, walk, dirpath, pending, pdf_procesados,
                   renombrados_info, advertencias_errores, visits, moves, run,
                   zip_out, couponVars>>

\* app.py:209-219, 50-53: the archive is extracted and the engine is entered
rp_extract ==
    /\ pc = "extract"
    /\ request.zip = "valid"
    /\ \E S \in PathSets : \E c \in Fillings(S, Kinds) :
          /\ tree0' = TreeOf(S, c)
          /\ files' = TreeOf(S, c)
          /\ walk' = WalkOrder(TreeOf(S, c))
    /\ pc' = "engine"
    /\ UNCHANGED <<request, temp_dir, dirpath, pending, pdf_procesados,
                   renombrados_info, advertencias_errores, visits, moves, run,
                   zip_out, response, couponVars>>

\* os.path.relpath(full_path, extracted_dir), app.py:229-230
arcname(f) == relpath(f.dir, f.name)

\* Mutant of ZipFilter: the extension is compared without lower().
ZipFilterCaseSensitive(filename) == endswith(filename, PdfExt)

\* app.py:228: filename.lower().endswith('.pdf')
ZipFilter(filename) == IsPdfName(filename)

\* app.py:225-231: one zip_out.write per PDF file of the second walk
RECURSIVE WriteAll(_)
WriteAll(fs) ==
    IF fs = {} THEN EmptyBag
    ELSE LET f == CHOOSE x \in fs : TRUE
         IN (IF ZipFilter(f.name) THEN SetToBag({arcname(f)}) ELSE EmptyBag)
               (+) WriteAll(fs \ {f})

\* app.py:221-239, 247-259: the output archive is built and sent
rp_send ==
    /\ pc = "returned"
    /\ run = 1
    /\ zip_out' = WriteAll(files)
    /\ response' = 200
    /\ pc' = "done"
    /\ temp_dir' = Finally(temp_dir)
    /\ UNCHANGED <<request, tree0, files, walk, dirpath, pending, pdf_procesados,
                   renombrados_info, advertencias_errores, visits, moves, run,
                   couponVars>>

\* app.py:244-246: writing the output archive raises
rp_send_fails ==
    /\ pc = "returned"
    /\ run = 1
    /\ response' = 500
    /\ pc' = "done"
    /\ temp_dir' = Finally(temp_dir)
    /\ UNCHANGED <<request, tree0, files, walk, dirpath, pending, pdf_procesados,
                   renombrados_info, advertencias_errores, visits, moves, run,
                   zip_out, couponVars>>

\* The engine called a second time on the directory it has just processed
\* (app.py:50-53 again).
run_again ==
    /\ pc = "returned"
    /\ run = 1
    /\ run' = 2
    /\ pc' = "engine"
    /\ walk' = WalkOrder(files)
    /\ pdf_procesados' = 0
    /\ renombrados_info' = <<>>
    /\ advertencias_errores' = <<>>
    /\ visits' = <<>>
    /\ moves' = <<>>
    /\ UNCHANGED <<request, temp_dir, tree0, files, dirpath, pending, zip_out,
                   response, couponVars>>

----------------------------------------------------------------------------
(* Initial states and specifications.                                      *)

RenameIdle ==
    /\ pc = "idle"
    /\ request = [field |-> FALSE, filename |-> <<>>, zip |-> "none"]
    /\ temp_dir = FALSE
    /\ tree0 = {}
    /\ files = {}
    /\ walk = <<>>
    /\ dirpath = <<>>
    /\ pending = {}
    /\ pdf_procesados = 0
    /\ renombrados_info = <<>>
    /\ advertencias_errores = <<>>
    /\ visits = <<>>
    /\ moves = <<>>
    /\ run = 1
    /\ zip_out = EmptyBag
    /\ response = 0

CouponInit ==
    /\ current_folio = InitialFolio
    /\ log = <<>>
    /\ thr = [t \in Threads |-> ThreadStart]

InitCoupon == CouponInit /\ RenameIdle

NextCoupon == \E req \in CouponRequests : generate_coupon(req)

SpecCoupon == InitCoupon /\ [][NextCoupon]_vars

NextConc ==
    \E t \in Threads :
        t_validate(t) \/ t_load(t) \/ t_store(t) \/ t_format(t) \/ t_render(t)

SpecConc == InitCoupon /\ [][NextConc]_vars

----------------------------------------------------------------------------
(* Claims about generate_coupon.                                           *)

\* responses 1..i of the log that succeeded
Successes(i) == {j \in 1..i : log[j].status = 200}

\* requests before i that passed the alumniName check and failed afterwards
FailedAfterCheck(i) ==
    {j \in 1..(i - 1) : /\ log[j].req.object
                        /\ ~Falsy(log[j].req.alumniName)
                        /\ log[j].status = 500}

\* C1 as stated: the Nth successful response carries str(36+N).zfill(4),
\* whatever requests came before it and whatever their outcome.
C1_NthFolioOriginal ==
    \A i \in 1..Len(log) :
        log[i].status = 200 =>
            log[i].folio = zfill(str(InitialFolio + Cardinality(Successes(i))), 4)

\* C1 amended: the Nth successful response carries str(36+N+F).zfill(4),
\* where F counts the earlier requests that passed the alumniName check and
\* then failed (500); such a request consumes a folio, a rejected one (400)
\* does not.  With no such failure before it the first success is "0037".
C1_NthFolioAmended ==
    \A i \in 1..Len(log) :
        log[i].status = 200 =>
            /\ log[i].folio =
                 zfill(str(InitialFolio + Cardinality(Successes(i))
                                        + Cardinality(FailedAfterCheck(i))), 4)
            /\ (Cardinality(Successes(i)) = 1 /\ FailedAfterCheck(i) = {})
                  => log[i].folio = <<"0", "0", "3", "7">>

\* C1 witness: a success that follows a rejected request and a request that
\* failed after the check.
C1_Witness ==
    \E i \in 1..Len(log) :
        /\ log[i].status = 200
        /\ FailedAfterCheck(i) # {}
        /\ \E j \in 1..(i - 1) : log[j].status = 400

\* C2 as stated: a request whose alumniName is missing, empty or
\* whitespace-only is answered 400 and leaves the folio counter as it was.
C2_RejectedLeavesFolio ==
    \A i \in 1..Len(log) :
        (log[i].req.object /\ strip(log[i].req.alumniName.s) = <<>>) =>
            /\ log[i].status = 400
            /\ log[i].after = log[i].before

\* C3 as stated: once all concurrent requests have completed, no increment
\* is lost and no two responses carry the same folio.
C3_AtomicIncrement ==
    (\A t \in Threads : thr[t].pc = "done") =>
        /\ current_folio =
             InitialFolio + Cardinality({t \in Threads : thr[t].status # 400})
        /\ \A t1, t2 \in Threads :
              (t1 # t2 /\ thr[t1].status = 200 /\ thr[t2].status = 200)
                 => thr[t1].folio # thr[t2].folio

----------------------------------------------------------------------------
(* The rename endpoint, and the engine run twice on one directory.         *)

Init == CouponInit /\ RenameIdle

Engine == walk_next \/ skip_file \/ procesar_pdf \/ engine_return

Next == rp_start \/ rp_extract_fails \/ rp_extract \/ Engine
           \/ rp_send \/ rp_send_fails

Spec == Init /\ [][Next]_vars

InitTwice ==
    /\ CouponInit
    /\ pc = "engine"
    /\ request = [field |-> FALSE, filename |-> <<>>, zip |-> "none"]
    /\ temp_dir = FALSE
    /\ \E S \in PathSets : \E c \in Fillings(S, Kinds) : tree0 = TreeOf(S, c)
    /\ files = tree0
    /\ walk = WalkOrder(tree0)
    /\ dirpath = <<>>
    /\ pending = {}
    /\ pdf_procesados = 0
    /\ renombrados_info = <<>>
    /\ advertencias_errores = <<>>
    /\ visits = <<>>
    /\ moves = <<>>
    /\ run = 1
    /\ zip_out = EmptyBag
    /\ response = 0

NextTwice == Engine \/ run_again

SpecTwice == InitTwice /\ [][NextTwice]_vars

----------------------------------------------------------------------------
(* Claims about the rename engine and the rename endpoint.                 *)

\* the PDF documents of a tree, by name as the extension filter reads it
EndsPdf(n) ==
    /\ Len(n) >= 4
    /\ n[Len(n) - 3] = "."
    /\ n[Len(n) - 2] \in {"p", "P"}
    /\ n[Len(n) - 1] \in {"d", "D"}
    /\ n[Len(n)] \in {"f", "F"}

Documents(fs) == {f \in fs : EndsPdf(f.name)}

\* how many entries of the sequence q equal x
Count(q, x) == Cardinality({i \in 1..Len(q) : q[i] = x})

\* name_k.pdf
Suffixed(limpio, k) == limpio \o <<"_">> \o str(k) \o PdfExt

\* the file of the tree that was extracted as f
Now(f) == CHOOSE g \in files : g.dir = f.dir /\ g.orig = f.name

\* the anchor is on some line of the text other than the first
AnchorBelowFirst(text) ==
    \E i \in 2..Len(split(text)) : contains(split(text)[i], Anchor)

\* the trimmed line before the first anchor line that is not the first line
LineBefore(text) ==
    LET ls == split(text)
        i == CHOOSE k \in 2..Len(ls) :
                 /\ contains(ls[k], Anchor)
                 /\ \A j \in 2..(k - 1) : ~contains(ls[j], Anchor)
    IN strip(ls[i - 1])

Errors(issues) ==
    {i \in 1..Len(issues) : issues[i].kind \in {"sin_clave", "excepcion"}}

\* C4 as stated: the second of two runs in succession renames no file, finds
\* every processed document already named, and records no error.
C4_SecondRunIdempotent ==
    (run = 2 /\ pc = "returned") =>
        /\ moves = <<>>
        /\ Len(renombrados_info) = pdf_procesados
        /\ Errors(advertencias_errores) = {}

\* C5 as stated: a rename whose candidate name.pdf differs from the current
\* name and is occupied moves the document to name_k.pdf for the smallest
\* k >= 1 that is unoccupied at that moment.
C5_CollisionSuffix ==
    \A i \in 1..Len(moves) :
        LET m == moves[i]
            candidate == m.limpio \o PdfExt
        IN (candidate # m.from /\ candidate \in m.taken) =>
              \E k \in 1..(Cardinality(m.taken) + 1) :
                  /\ m.to = Suffixed(m.limpio, k)
                  /\ m.to \notin m.taken
                  /\ \A j \in 1..(k - 1) : Suffixed(m.limpio, j) \in m.taken

\* C6: on success the output archive holds exactly one entry, named by its
\* relative path, for every file of the tree as the engine left it whose name
\* ends in .pdf in any case, and no other entry; a.pdf (name J) with n.txt
\* gives exactly J.pdf, and a tree without documents gives no entry.
C6_ArchiveEntries ==
    (pc = "done" /\ response = 200) =>
        /\ \A f \in Documents(files) :
              CopiesIn(IF f.dir = Root THEN f.name ELSE f.dir \o <<"/">> \o f.name,
                       zip_out) = 1
        /\ \A e \in BagToSet(zip_out) :
              \E f \in Documents(files) :
                  e = (IF f.dir = Root THEN f.name ELSE f.dir \o <<"/">> \o f.name)
        /\ (tree0 = {[dir |-> Root, name |-> <<"a">> \o PdfExt,
                      orig |-> <<"a">> \o PdfExt, doc |-> "J"],
                     [dir |-> Root, name |-> <<"n", ".", "t", "x", "t">>,
                      orig |-> <<"n", ".", "t", "x", "t">>, doc |-> NotADocument]})
              => zip_out = SetToBag({<<"J">> \o PdfExt})
        /\ Documents(tree0) = {} => zip_out = EmptyBag

\* C6 witness: a successful response for an archive with a renamed document,
\* a document with an upper-case extension in the subdirectory and a text file.
C6_Witness ==
    /\ pc = "done"
    /\ response = 200
    /\ moves # <<>>
    /\ \E f \in files : f.dir = Sub /\ EndsPdf(f.name)
    /\ \E f \in files : ~EndsPdf(f.name)
    /\ BagCardinality(zip_out) = 2

\* the call that raises while the loop body handles f, if one does
Raises(f) ==
    LET d == Content(f.doc)
    IN \/ d.fault \in {"open", "extract"}
       \/ /\ d.fault = "rename"
          /\ AnchorBelowFirst(d.text)
          /\ limpiar_nombre_archivo(LineBefore(d.text)) \o PdfExt # f.name

\* C7: when the engine returns, every document whose open, text extraction or
\* rename raised has exactly one error message, naming its relative path, has
\* kept its name, and every document of the tree has been handled once.
C7_FailureIsolated ==
    (pc = "returned") =>
        /\ \A f \in Documents(tree0) :
              Raises(f) =>
                 /\ Count(advertencias_errores,
                          Msg("excepcion", relpath(f.dir, f.name))) = 1
                 /\ \A i \in 1..Len(advertencias_errores) :
                       advertencias_errores[i].path = relpath(f.dir, f.name)
                          => advertencias_errores[i].kind = "excepcion"
                 /\ f \in files
                 /\ Count(renombrados_info, relpath(f.dir, f.name)) = 0
        /\ \A g \in Documents(tree0) : Count(visits, <<g.dir, g.name>>) = 1

\* C7 witness: the engine has returned from a tree in which a document failed
\* to open, another failed to be renamed, and a third was renamed.
C7_Witness ==
    /\ pc = "returned"
    /\ \E f \in Documents(tree0) : Raises(f) /\ Content(f.doc).fault = "rename"
    /\ \E f \in Documents(tree0) : Raises(f) /\ Content(f.doc).fault # "rename"
    /\ moves # <<>>

\* C8 as stated: a document whose text has the anchor below the first line
\* ends the run named after the sanitised line before the first such anchor
\* (or its suffixed form) and listed in the renamed list; the error for a
\* missing anchor is recorded only for a document whose text has the anchor on
\* no line or only on the first.
C8_NameFromAnchor ==
    (run = 1 /\ pc = "returned") =>
        \A f \in Documents(tree0) :
            LET d == Content(f.doc)
                limpio == limpiar_nombre_archivo(LineBefore(d.text))
            IN (d.pages /\ d.fault = "none") =>
                 /\ AnchorBelowFirst(d.text) =>
                       /\ \/ Now(f).name = limpio \o PdfExt
                          \/ \E k \in 1..Cardinality(tree0) :
                                Now(f).name = Suffixed(limpio, k)
                       /\ Count(renombrados_info, relpath(f.dir, Now(f).name)) = 1
                 /\ Count(advertencias_errores,
                          Msg("sin_clave", relpath(f.dir, f.name))) > 0
                       => ~AnchorBelowFirst(d.text)

\* C9 as stated: when the request completes, the temporary directory it
\* allocated has been removed.
C9_TempDirRemoved == (pc = "done") => ~temp_dir

\* C10: a run never loses a document: every rename goes to a name that is
\* unoccupied at that moment, the tree always holds the files it was
\* extracted with, each in its directory, and when the engine returns every
\* document has been handled exactly once.
C10_NoDocumentLost ==
    /\ \A i \in 1..Len(moves) : moves[i].to \notin moves[i].taken
    /\ {<<f.dir, f.orig, f.doc>> : f \in files}
          = {<<f.dir, f.name, f.doc>> : f \in tree0}
    /\ \A dir \in {Root, Sub} :
          Cardinality({f \in files : f.dir = dir})
             = Cardinality({f \in tree0 : f.dir = dir})
    /\ (pc = "returned") =>
          /\ \A g \in Documents(tree0) : Count(visits, <<g.dir, g.name>>) = 1
          /\ Len(visits) = Cardinality(Documents(tree0))
          /\ pdf_procesados = Cardinality(Documents(tree0))

\* C10 witness: the engine has returned from a tree in which two documents
\* were renamed, one of them to a name that a collision made it take.
C10_Witness ==
    /\ pc = "returned"
    /\ Len(moves) >= 2
    /\ \E i \in 1..Len(moves) : moves[i].to # moves[i].limpio \o PdfExt

====
